---- MODULE Spec2Model ----
(***************************************************************************)
(* trashmap: the ephemeral game-server orchestrator of src/main.rs.        *)
(*                                                                         *)
(* The state is the `processes` map behind the global tokio Mutex, the     *)
(* broadcast channel of ServerEvents, the instance directories on disk,    *)
(* the external server processes with the two tasks update_map spawns for  *)
(* each of them (exit reaper, idle timer), the HTTP handlers in flight,    *)
(* the SSE subscribers and the termination-signal task. escape_ddnet, the  *)
(* one pure function of the program, is modelled on character sequences.   *)
(***************************************************************************)
EXTENDS Integers, Sequences, FiniteSets, TLC

VARIABLES
    port_range,   \* Config.port_range, read once at startup
    lock,         \* holder of the Mutex around `processes`
    processes,    \* HashMap<Uuid, ServerProcess>
    children,     \* every external process spawned so far, with its tasks
    fs,           \* the instance directories under data_dir()
    req,          \* the update_map handlers
    effects,      \* what the last step did to the outside: the response it
                  \* gave, the administration line it wrote, the event it sent
    subs,         \* the server_events handlers
    announced,    \* event_channel: the identifiers whose latest `online` or
                  \* `stopped` event sent is `online`
    sig,          \* the signal task of main
    escaped       \* a call of escape_ddnet: its argument and its result

vars == <<port_range, lock, processes, children, fs, req, effects, subs,
          announced, sig, escaped>>

----------------------------------------------------------------------------
(* Bounds of the model *)

MaxSpawn == 2     \* external processes spawned in one run
NumReqs == 2      \* update_map handlers that can be in flight at once
MaxStream == 3    \* events a subscriber takes before it disconnects
MaxLen == 3       \* characters of an argument of escape_ddnet

Ids == {"X", "Y"}               \* server_id values
Stems == {"a", "b"}             \* map names
Subs == {1}                     \* subscribers
Reqs == 1..NumReqs
PortRanges == {<<1, 1>>, <<1, 2>>, <<2, 1>>}   \* (low, high) configurations

\* The filenames a request can carry (map_filename of UpdateMapQuery), as
\* the name and the extension of the last path component; the stem is ""
\* for a path that ends in "..", which has no file name.
Filenames ==
    { [stem |-> s, ext |-> "map"] : s \in Stems }
    \cup { [stem |-> "a", ext |-> "txt"], [stem |-> "", ext |-> ""] }

\* the characters of a string: backslash, double quote, CR, LF, any other
Chars == { "\\", "\"", "\r", "\n", "a" }
Strings == UNION { [1..n -> Chars] : n \in 0..MaxLen }

\* server_name and server_password of a request, as character sequences
Names == { <<"a">>, <<"\"">> }
Passwords == { <<>>, <<"p", "\n">> }

\* The step of an upload to a registered instance that fails, if any: the
\* write of the map file, the write to the administration connection, the
\* removal of the previous map file.
UploadFailures == {"none", "fswrite", "tcp", "rm"}

----------------------------------------------------------------------------
(* Values *)

Free == <<"free", 0>>
ReqTask(r) == <<"req", r>>
ReaperTask(c) == <<"reaper", c>>
TimerTask(c) == <<"timer", c>>
SigTask == <<"sig", 0>>

\* a line written to the administration connection of child c
NoCmd == [child |-> 0, cmd |-> "none", arg |-> ""]
Cmd(c, line, arg) == [child |-> c, cmd |-> line, arg |-> arg]

\* struct ServerEvent; data is the port of "host:port" for online
NoEvent == [server_id |-> "X", event |-> "none", data |-> 0]
ServerEvent(id, event, data) == [server_id |-> id, event |-> event, data |-> data]

\* the response to an update_map request for (id, stem)
NoResp == [id |-> "X", stem |-> "a", status |-> "none"]
Response(id, stem, status) == [id |-> id, stem |-> stem, status |-> status]

Effects(response, line, event) == [resp |-> response, sent |-> line, event |-> event]
NoEffects == Effects(NoResp, NoCmd, NoEvent)

\* struct ServerProcess: tcp_stream is the connection to child `child`,
\* server_path is determined by the identifier, map_path by the map stem
ServerProcess(c, stem, port) == [tcp_stream |-> c, map_path |-> stem, port |-> port]

Registered == DOMAIN processes

Insert(map, id, value) == [i \in DOMAIN map \cup {id} |-> IF i = id THEN value ELSE map[i]]
Remove(map, id) == [i \in DOMAIN map \ {id} |-> map[i]]

IdleReq == [pc |-> "idle", id |-> "X", stem |-> "a", child |-> 0]

NoSub == [pc |-> "none", id |-> "X", status |-> "none", port |-> 0, stream |-> <<>>, early |-> 0]
NoSig == [pc |-> "idle", snap |-> {}, done |-> {}]

\* no call of escape_ddnet under way
NoCall == [pc |-> "none", str |-> <<>>, out |-> <<>>]

----------------------------------------------------------------------------
(* Pure parts of update_map *)

\* Path::file_name(): the last component, none when the path ends in ".."
HasFileName(f) == f.stem # ""

\* strip_suffix(".map")
HasMapSuffix(f) == f.ext = "map"

\* occupied_ports: the ports of the registered instances
OccupiedPorts(procs) == { procs[i].port : i \in DOMAIN procs }

\* FreePorts with the occupancy filter of line 237 left out
FreePortsUnfiltered(range, procs) == { p \in range[1]..range[2] : TRUE }

\* the candidates of the port search: the range without the occupied ports
FreePorts(range, procs) ==
    { p \in range[1]..range[2] : p \notin OccupiedPorts(procs) }

\* FirstFree with the range searched from its upper end
LastFree(range, procs) ==
    CHOOSE p \in FreePorts(range, procs) : \A q \in FreePorts(range, procs) : p >= q

\* .next() of the filtered range: the first free port
FirstFree(range, procs) ==
    CHOOSE p \in FreePorts(range, procs) : \A q \in FreePorts(range, procs) : p <= q

\* tokio::fs::write(map_path): needs the maps/ directory
WriteMap(files, id, stem) ==
    [files EXCEPT ![id] = [@ EXCEPT !.maps = @ \cup {stem}]]

\* tokio::fs::remove_file(map_path)
RemoveMap(files, id, stem) ==
    [files EXCEPT ![id] = [@ EXCEPT !.maps = @ \ {stem}]]

\* tokio::fs::create_dir_all(server_path/maps)
CreateDir(files, id) == [files EXCEPT ![id] = [@ EXCEPT !.dir = TRUE]]

\* RemoveDir that leaves the directory where it is
RemoveDirKeeps(files, id) == files

\* tokio::fs::remove_dir_all(server_path)
RemoveDir(files, id) == [files EXCEPT ![id] = [dir |-> FALSE, maps |-> {}]]

\* write_all on a connection: it cannot fail while the peer process runs;
\* once the peer has exited the write may still be accepted or be refused
WriteOutcomes(c) == IF children[c].alive THEN {TRUE} ELSE {TRUE, FALSE}

\* the orchestrator runs until the signal task calls std::process::exit
Running == sig.pc # "exited"

----------------------------------------------------------------------------
(* escape_ddnet; a string is the sequence of its characters *)

\* str::replace for a pattern of one character
RECURSIVE Replace(_, _, _)
Replace(str, from, to) ==
    IF str = <<>> THEN <<>>
    ELSE (IF Head(str) = from THEN to ELSE <<Head(str)>>) \o Replace(Tail(str), from, to)

\* escape_ddnet with the two first replacements in the other order
escape_ddnet_quotes_first(str) ==
    Replace(Replace(Replace(Replace(str, "\"", <<"\\", "\"">>), "\\", <<"\\", "\\">>),
                    "\n", <<>>), "\r", <<>>)

\* line 158: backslashes are doubled, then every double quote gets a
\* backslash, then the line feeds and then the carriage returns are dropped
escape_ddnet(str) ==
    Replace(Replace(Replace(Replace(str, "\\", <<"\\", "\\">>), "\"", <<"\\", "\"">>),
                    "\n", <<>>), "\r", <<>>)

----------------------------------------------------------------------------
Init ==
    /\ port_range \in PortRanges
    /\ lock = Free
    /\ processes = [i \in {} |-> 0]
    /\ children = <<>>
    /\ fs = [i \in Ids |-> [dir |-> FALSE, maps |-> {}]]
    /\ req = [r \in Reqs |-> IdleReq]
    /\ effects = NoEffects
    /\ subs = [s \in Subs |-> NoSub]
    /\ announced = {}
    /\ sig = NoSig
    /\ escaped = NoCall

\* a call of escape_ddnet is to be made, with any string as its argument
InitEscape ==
    /\ port_range \in PortRanges
    /\ lock = Free
    /\ processes = [i \in {} |-> 0]
    /\ children = <<>>
    /\ fs = [i \in Ids |-> [dir |-> FALSE, maps |-> {}]]
    /\ req = [r \in Reqs |-> IdleReq]
    /\ effects = NoEffects
    /\ subs = [s \in Subs |-> NoSub]
    /\ announced = {}
    /\ sig = NoSig
    /\ escaped \in { [pc |-> "call", str |-> str, out |-> <<>>] : str \in Strings }

\* lines 157-159: the call returns
EscapeDdnet ==
    /\ escaped.pc = "call"
    /\ escaped' = [escaped EXCEPT !.pc = "done", !.out = escape_ddnet(escaped.str)]
    /\ UNCHANGED <<port_range, lock, processes, children, fs, req, effects, subs,
                   announced, sig>>

----------------------------------------------------------------------------
(* The event channel *)

\* event_channel.send: every receiver that exists gets the event; the
\* stream of a subscriber keeps those of its server_id (line 137). `early`
\* counts the events a receiver got before its status was read. A
\* subscriber that has taken MaxStream events has disconnected.
\* which identifiers were last sent `online`, once ev is sent as well
Announce(ids, ev) ==
    IF ev.event = "online" THEN ids \cup {ev.server_id}
    ELSE IF ev.event = "stopped" THEN ids \ {ev.server_id}
    ELSE ids

\* Receives for a receiver that is dropped once the status is read
ReceivesBeforeStatus(sub, ev) ==
    sub.pc = "subscribed" /\ sub.id = ev.server_id /\ Len(sub.stream) < MaxStream

Receives(sub, ev) ==
    sub.pc # "none" /\ sub.id = ev.server_id /\ Len(sub.stream) < MaxStream

Publish(ev) ==
    /\ subs' = [s \in Subs |->
               IF Receives(subs[s], ev)
               THEN [subs[s] EXCEPT !.stream = Append(@, ev),
                                    !.early = IF subs[s].pc = "subscribed" THEN @ + 1 ELSE @]
               ELSE subs[s]]
    /\ announced' = Announce(announced, ev)

----------------------------------------------------------------------------
(* update_map *)

\* CanLock with the Mutex left out
CanLockAlways == TRUE

\* lock().await returns once no task holds the Mutex
CanLock == lock = Free

\* a request is served by the first handler that is not in flight
Idle(r) == req[r].pc = "idle" /\ \A q \in 1..(r - 1) : req[q].pc # "idle"

\* lines 204-211: the filename is refused before the lock is asked for
\* and before server_id is looked at
UpdateMapInvalid(r, f) ==
    /\ Running
    /\ Idle(r)
    /\ ~(HasFileName(f) /\ HasMapSuffix(f))
    /\ effects' = Effects(Response("X", "a", "ErrFilename"), NoCmd, NoEvent)
    /\ UNCHANGED <<escaped, port_range, lock, processes, children, fs, req, subs, announced, sig>>

\* ReloadOrChange with the remove_file of line 229 left out
ReloadOrChangeKeepsFile(id, stem, files, fail) ==
    LET process == processes[id]
        c == process.tcp_stream
    IN  /\ fail = "none"
        /\ fs' = files
        /\ IF process.map_path = stem
           THEN /\ effects' = Effects(Response(id, stem, "Accepted"), Cmd(c, "hot_reload", ""), NoEvent)
                /\ UNCHANGED processes
           ELSE /\ effects' = Effects(Response(id, stem, "Accepted"), Cmd(c, "change_map", stem), NoEvent)
                /\ processes' = [processes EXCEPT ![id].map_path = stem]

\* ReloadOrChange with the assignment of line 230 before the remove_file
\* of line 229
ReloadOrChangeTracksFirst(id, stem, files, fail) ==
    LET process == processes[id]
        c == process.tcp_stream
    IN  /\ fail = "tcp" => ~children[c].alive
        /\ fail = "rm" => process.map_path # stem
        /\ IF fail = "tcp"
           THEN /\ effects' = Effects(Response(id, stem, "ErrIO"), NoCmd, NoEvent)
                /\ fs' = files
                /\ UNCHANGED processes
           ELSE IF process.map_path = stem
           THEN /\ effects' = Effects(Response(id, stem, "Accepted"), Cmd(c, "hot_reload", ""), NoEvent)
                /\ fs' = files
                /\ UNCHANGED processes
           ELSE IF process.map_path \in files[id].maps /\ fail # "rm"
           THEN /\ effects' = Effects(Response(id, stem, "Accepted"), Cmd(c, "change_map", stem), NoEvent)
                /\ fs' = RemoveMap(files, id, process.map_path)
                /\ processes' = [processes EXCEPT ![id].map_path = stem]
           ELSE /\ effects' = Effects(Response(id, stem, "ErrIO"), Cmd(c, "change_map", stem), NoEvent)
                /\ fs' = files
                /\ processes' = [processes EXCEPT ![id].map_path = stem]

\* lines 222-231, after the map file is written: hot reload or map change.
\* A write to the connection can fail only once the process has exited;
\* remove_file fails when the file is not there, or for a cause outside.
ReloadOrChange(id, stem, files, fail) ==
    LET process == processes[id]
        c == process.tcp_stream
    IN  /\ fail = "tcp" => ~children[c].alive
        /\ fail = "rm" => process.map_path # stem
        /\ IF fail = "tcp"
           THEN /\ effects' = Effects(Response(id, stem, "ErrIO"), NoCmd, NoEvent)
                /\ fs' = files
                /\ UNCHANGED processes
           ELSE IF process.map_path = stem
           THEN /\ effects' = Effects(Response(id, stem, "Accepted"), Cmd(c, "hot_reload", ""), NoEvent)
                /\ fs' = files
                /\ UNCHANGED processes
           ELSE IF process.map_path \in files[id].maps /\ fail # "rm"
           THEN /\ effects' = Effects(Response(id, stem, "Accepted"), Cmd(c, "change_map", stem), NoEvent)
                /\ fs' = RemoveMap(files, id, process.map_path)
                /\ processes' = [processes EXCEPT ![id].map_path = stem]
           ELSE /\ effects' = Effects(Response(id, stem, "ErrIO"), Cmd(c, "change_map", stem), NoEvent)
                /\ fs' = files
                /\ UNCHANGED processes

\* lines 218-233: the identifier is registered; the Mutex is held from the
\* lookup to the response. The write of the map file fails when the
\* directory is not there, or for a cause outside.
UpdateMapExisting(r, id, f, fail) ==
    /\ Running
    /\ Idle(r)
    /\ HasFileName(f) /\ HasMapSuffix(f)
    /\ CanLock
    /\ id \in Registered
    /\ IF fs[id].dir /\ fail # "fswrite"
       THEN ReloadOrChange(id, f.stem, WriteMap(fs, id, f.stem), fail)
       ELSE /\ effects' = Effects(Response(id, f.stem, "ErrIO"), NoCmd, NoEvent)
            /\ UNCHANGED <<processes, fs>>
    /\ UNCHANGED <<escaped, port_range, lock, children, req, subs, announced, sig>>

\* NoPortLeft with the oldest registered instance evicted for the new one
NoPortLeftEvicts(id, stem) ==
    /\ effects' = Effects(Response(id, stem, "ErrPorts"), NoCmd, NoEvent)
    /\ processes' = IF Registered = {} THEN processes
                    ELSE Remove(processes, CHOOSE i \in Registered : TRUE)
    /\ UNCHANGED <<escaped, port_range, lock, children, fs, req, subs, announced, sig>>

\* line 239: what the request does when the port search finds nothing
NoPortLeft(id, stem) ==
    /\ effects' = Effects(Response(id, stem, "ErrPorts"), NoCmd, NoEvent)
    /\ UNCHANGED <<escaped, port_range, lock, processes, children, fs, req, subs, announced, sig>>

\* lines 235-239: no port of the range is free
UpdateMapNoPort(r, id, f) ==
    /\ Running
    /\ Idle(r)
    /\ HasFileName(f) /\ HasMapSuffix(f)
    /\ CanLock
    /\ id \notin Registered
    /\ FreePorts(port_range, processes) = {}
    /\ NoPortLeft(id, f.stem)

\* the external process as Command::spawn leaves it, with the reaper task
\* of lines 311-326 waiting for its exit and no idle timer yet; swe counts
\* the sv_shutdown_when_empty lines it has been sent
Child(id, port) ==
    [id |-> id, port |-> port, alive |-> TRUE, reaper |-> "wait",
     timer |-> "none", swe |-> 0]

\* a process that has exited and whose two tasks have ended leaves nothing
\* behind; what it was is forgotten
Gone == [id |-> "X", port |-> 0, alive |-> FALSE, reaper |-> "done",
         timer |-> "done", swe |-> 0]

Finished(child) ==
    ~child.alive /\ child.reaper = "done" /\ child.timer \in {"none", "done"}

Forget(procs) == [c \in DOMAIN procs |-> IF Finished(procs[c]) THEN Gone ELSE procs[c]]

\* lines 235-326: a port is taken, the directory and the configuration are
\* written, the process is spawned with its reaper task; the handler keeps
\* the Mutex and goes on to the readiness handshake. The file system calls
\* and the spawn of lines 241-306 are taken to succeed.
UpdateMapSpawn(r, id, f) ==
    /\ Running
    /\ Idle(r)
    /\ HasFileName(f) /\ HasMapSuffix(f)
    /\ CanLock
    /\ id \notin Registered
    /\ FreePorts(port_range, processes) # {}
    /\ Len(children) < MaxSpawn
    /\ fs' = WriteMap(CreateDir(fs, id), id, f.stem)
    /\ children' = Append(children, Child(id, FirstFree(port_range, processes)))
    /\ lock' = ReqTask(r)
    /\ req' = [req EXCEPT ![r] = [pc |-> "handshake", id |-> id, stem |-> f.stem,
                                  child |-> Len(children) + 1]]
    /\ effects' = NoEffects
    /\ UNCHANGED <<escaped, port_range, processes, subs, announced, sig>>

\* lines 344-381: the instance is inserted, `online` is sent, the idle
\* timer task is spawned and the request is answered
Register(id, stem, c) ==
    /\ processes' = Insert(processes, id, ServerProcess(c, stem, children[c].port))
    /\ children' = [children EXCEPT ![c].timer = "sleep"]
    /\ Publish(ServerEvent(id, "online", children[c].port))
    /\ effects' = Effects(Response(id, stem, "Created"),
                          Cmd(c, "stdout_output_level", ""),
                          ServerEvent(id, "online", children[c].port))

\* StartupFailed with the insert of line 344 moved before the handshake
StartupFailedInserted(id, stem, c, status) ==
    /\ effects' = Effects(Response(id, stem, status), NoCmd, NoEvent)
    /\ processes' = Insert(processes, id, ServerProcess(c, stem, children[c].port))
    /\ UNCHANGED <<children, subs, announced>>

\* lines 331-342: one of the `?` returns the error; nothing was inserted
StartupFailed(id, stem, c, status) ==
    /\ effects' = Effects(Response(id, stem, status), NoCmd, NoEvent)
    /\ UNCHANGED <<processes, children, subs, announced>>

\* lines 328-381: the readiness handshake, the administration connection,
\* the registration and the response; the Mutex is released on return.
\*   outcome "timeout": the deadline passes without the marker
\*   outcome "eof":     the output ends before the marker
\*   outcome "refused": connect or one of the first writes fails
\*   outcome "ready":   the marker was read and the connection is open
UpdateMapFinish(r, outcome) ==
    /\ Running
    /\ req[r].pc = "handshake"
    /\ LET id == req[r].id
           stem == req[r].stem
           c == req[r].child
       IN  /\ outcome \in {"eof", "refused"} => ~children[c].alive
           /\ IF outcome = "ready"
              THEN Register(id, stem, c)
              ELSE StartupFailed(id, stem, c,
                                 IF outcome = "refused" THEN "ErrIO" ELSE "ErrStartup")
    /\ lock' = Free
    /\ req' = [req EXCEPT ![r] = IdleReq]
    /\ UNCHANGED <<escaped, port_range, fs, sig>>

UpdateMap ==
    \E r \in Reqs :
        \/ \E f \in Filenames : UpdateMapInvalid(r, f)
        \/ \E id \in Ids, f \in Filenames, fail \in UploadFailures :
              UpdateMapExisting(r, id, f, fail)
        \/ \E id \in Ids, f \in Filenames : UpdateMapNoPort(r, id, f)
        \/ \E id \in Ids, f \in Filenames : UpdateMapSpawn(r, id, f)
        \/ \E outcome \in {"timeout", "eof", "refused", "ready"} : UpdateMapFinish(r, outcome)

----------------------------------------------------------------------------
(* update_settings *)

\* SettingsLines with the password line before the name line
SettingsLinesSwapped(c, name, password) ==
    Cmd(c, "sv_name,password", <<escape_ddnet(password), escape_ddnet(name)>>)

\* lines 177-181: the sv_name line and then the password line, both with
\* their argument escaped, as one write to the connection of child c
SettingsLines(c, name, password) ==
    Cmd(c, "sv_name,password", <<escape_ddnet(name), escape_ddnet(password)>>)

\* lines 172-188: under the Mutex, the two lines are written to the
\* instance if there is one; the response carries no map
UpdateSettings(id, name, password, ok) ==
    /\ Running
    /\ CanLock
    /\ IF id \in Registered
       THEN LET c == processes[id].tcp_stream
            IN  /\ ok \in WriteOutcomes(c)
                /\ effects' = IF ok
                              THEN Effects(Response(id, "", "Accepted"),
                                           SettingsLines(c, name, password), NoEvent)
                              ELSE Effects(Response(id, "", "ErrIO"), NoCmd, NoEvent)
       ELSE /\ ok
            /\ effects' = Effects(Response(id, "", "Ok"), NoCmd, NoEvent)
    /\ UNCHANGED <<escaped, port_range, lock, processes, children, fs, req, subs, announced, sig>>

UpdateSettingsRequest ==
    \E id \in Ids, name \in Names, password \in Passwords, ok \in BOOLEAN :
        UpdateSettings(id, name, password, ok)

----------------------------------------------------------------------------
(* The external processes and the tasks update_map spawns for them *)

\* the external process terminates: by command, by a crash or by itself
ChildExit(c) ==
    /\ children[c].alive
    /\ children' = [children EXCEPT ![c].alive = FALSE]
    /\ effects' = NoEffects
    /\ UNCHANGED <<escaped, port_range, lock, processes, fs, req, subs, announced, sig>>

\* RemoveAndPublish with the send of lines 316-320 left out
RemoveSilently(id) ==
    /\ processes' = Remove(processes, id)
    /\ effects' = NoEffects
    /\ UNCHANGED <<subs, announced>>

\* lines 315-321: the entry of the task's server_id is removed and, if
\* there was one, `stopped` is sent
RemoveAndPublish(id) ==
    IF id \in Registered
    THEN /\ processes' = Remove(processes, id)
         /\ Publish(ServerEvent(id, "stopped", 0))
         /\ effects' = Effects(NoResp, NoCmd, ServerEvent(id, "stopped", 0))
    ELSE /\ effects' = NoEffects
         /\ UNCHANGED <<processes, subs, announced>>

\* lines 312-321: child.wait() has returned and the task has the Mutex
ReaperRemove(c) ==
    /\ Running
    /\ children[c].reaper = "wait"
    /\ ~children[c].alive
    /\ CanLock
    /\ lock' = ReaperTask(c)
    /\ RemoveAndPublish(children[c].id)
    /\ children' = [children EXCEPT ![c].reaper = "rmdir"]
    /\ UNCHANGED <<escaped, port_range, fs, req, sig>>

\* lines 323-326: the directory is deleted (an error is only logged), the
\* task ends and its MutexGuard is dropped
ReaperRmdir(c) ==
    /\ Running
    /\ children[c].reaper = "rmdir"
    /\ fs' = RemoveDir(fs, children[c].id)
    /\ children' = Forget([children EXCEPT ![c].reaper = "done"])
    /\ lock' = Free
    /\ effects' = NoEffects
    /\ UNCHANGED <<escaped, port_range, processes, req, subs, announced, sig>>

\* lines 362-365: the 60 seconds of the sleep have passed and the task has
\* the Mutex; the sleeps end, and the tasks queue for the Mutex, in the
\* order in which they were started
TimerLookup(c) ==
    /\ Running
    /\ children[c].timer = "sleep"
    /\ \A d \in 1..(c - 1) : children[d].timer # "sleep"
    /\ CanLock
    /\ IF children[c].id \in Registered
       THEN /\ lock' = TimerTask(c)
            /\ children' = [children EXCEPT ![c].timer = "write"]
       ELSE /\ children' = Forget([children EXCEPT ![c].timer = "done"])
            /\ UNCHANGED lock
    /\ effects' = NoEffects
    /\ UNCHANGED <<escaped, port_range, processes, fs, req, subs, announced, sig>>

\* lines 366-378: the command is written to the connection of the entry
\* found and the event is sent; a failed write ends the task with an error
TimerWrite(c, ok) ==
    /\ Running
    /\ children[c].timer = "write"
    /\ LET id == children[c].id
           target == processes[id].tcp_stream
       IN  /\ ok \in WriteOutcomes(target)
           /\ IF ok
              THEN /\ children' = Forget([children EXCEPT ![c].timer = "done",
                                                          ![target].swe = @ + 1])
                   /\ Publish(ServerEvent(id, "shutdownwhenempty", 0))
                   /\ effects' = Effects(NoResp, Cmd(target, "sv_shutdown_when_empty", ""),
                                         ServerEvent(id, "shutdownwhenempty", 0))
              ELSE /\ children' = Forget([children EXCEPT ![c].timer = "done"])
                   /\ effects' = NoEffects
                   /\ UNCHANGED <<subs, announced>>
    /\ lock' = Free
    /\ UNCHANGED <<escaped, port_range, processes, fs, req, sig>>

Lifecycle ==
    \E c \in 1..Len(children) :
        \/ ChildExit(c)
        \/ ReaperRemove(c)
        \/ ReaperRmdir(c)
        \/ TimerLookup(c)
        \/ \E ok \in BOOLEAN : TimerWrite(c, ok)

----------------------------------------------------------------------------
(* server_events *)

\* line 135: the receiver is created; it gets every event sent from now on
Subscribe(s, id) ==
    /\ Running
    /\ subs[s].pc = "none"
    /\ subs' = [subs EXCEPT ![s] = [NoSub EXCEPT !.pc = "subscribed", !.id = id]]
    /\ effects' = NoEffects
    /\ UNCHANGED <<escaped, port_range, lock, processes, children, fs, req, announced, sig>>

\* lines 142-148: the status event, built from the registry
Status(id) ==
    IF id \in Registered
    THEN [status |-> "online", port |-> processes[id].port]
    ELSE [status |-> "offline", port |-> 0]

\* lines 141-154: the handler has the Mutex, builds the status event and
\* returns the stream that starts with it; the guard is dropped on return
SubscribeStatus(s) ==
    /\ Running
    /\ subs[s].pc = "subscribed"
    /\ CanLock
    /\ subs' = [subs EXCEPT ![s] = [@ EXCEPT !.pc = "streaming",
                                             !.status = Status(subs[s].id).status,
                                             !.port = Status(subs[s].id).port]]
    /\ effects' = NoEffects
    /\ UNCHANGED <<escaped, port_range, lock, processes, children, fs, req, announced, sig>>

ServerEvents ==
    \E s \in Subs :
        \/ \E id \in Ids : Subscribe(s, id)
        \/ SubscribeStatus(s)

----------------------------------------------------------------------------
(* The signal task of main *)

\* lines 101-107: ctrl-c or SIGTERM has arrived and the task has the
\* Mutex; the loop is over the instances registered now
SignalLock ==
    /\ sig.pc = "idle"
    /\ CanLock
    /\ lock' = SigTask
    /\ sig' = [sig EXCEPT !.pc = "loop", !.snap = Registered]
    /\ effects' = NoEffects
    /\ UNCHANGED <<escaped, port_range, processes, children, fs, req, subs, announced>>

\* lines 108-112: one iteration, in the order of the HashMap; either `?`
\* ends the task with an error, which drops the guard
SignalStep(id, ok) ==
    /\ sig.pc = "loop"
    /\ id \in sig.snap \ sig.done
    /\ ok \in WriteOutcomes(processes[id].tcp_stream)
    /\ LET c == processes[id].tcp_stream IN
       IF ~ok
       THEN /\ sig' = [sig EXCEPT !.pc = "failed"]
            /\ lock' = Free
            /\ effects' = NoEffects
            /\ UNCHANGED fs
       ELSE /\ effects' = Effects(NoResp, Cmd(c, "shutdown", ""), NoEvent)
            /\ IF fs[id].dir
               THEN /\ fs' = RemoveDir(fs, id)
                    /\ sig' = [sig EXCEPT !.done = @ \cup {id}]
                    /\ UNCHANGED lock
               ELSE /\ sig' = [sig EXCEPT !.pc = "failed"]
                    /\ lock' = Free
                    /\ UNCHANGED fs
    /\ UNCHANGED <<escaped, port_range, processes, children, req, subs, announced>>

\* line 114: std::process::exit(0)
SignalExit ==
    /\ sig.pc = "loop"
    /\ sig.snap = sig.done
    /\ sig' = [sig EXCEPT !.pc = "exited"]
    /\ effects' = NoEffects
    /\ UNCHANGED <<escaped, port_range, lock, processes, children, fs, req, subs, announced>>

SignalTask ==
    \/ SignalLock
    \/ \E id \in Ids, ok \in BOOLEAN : SignalStep(id, ok)
    \/ SignalExit

----------------------------------------------------------------------------
(* The specifications: the whole orchestrator, and its parts. A subscriber
   changes nothing but its own stream, so the parts without server_events
   lose no behaviour of the registry. *)

Next == UpdateMap \/ UpdateSettingsRequest \/ Lifecycle \/ ServerEvents \/ SignalTask

Spec == Init /\ [][Next]_vars

\* requests and the tasks of the instances
NextCore == UpdateMap \/ Lifecycle

SpecCore == Init /\ [][NextCore]_vars

\* with subscribers
NextEvents == UpdateMap \/ Lifecycle \/ ServerEvents

SpecEvents == Init /\ [][NextEvents]_vars

\* with the termination signal
NextSignal == UpdateMap \/ Lifecycle \/ SignalTask

SpecSignal == Init /\ [][NextSignal]_vars

\* What the scheduling of the tasks guarantees: the readiness handshake
\* ends within its deadline of one second (line 329); a task that waits
\* for the Mutex gets it once it stays free, and a task that holds it goes
\* on to its next await and to its end. Requests, signals and the exits of
\* the external processes come when they come.
Fairness ==
    /\ WF_vars(\E r \in Reqs, outcome \in {"timeout", "eof", "refused", "ready"} :
                  UpdateMapFinish(r, outcome))
    /\ WF_vars(\E c \in 1..Len(children) : ReaperRemove(c))
    /\ WF_vars(\E c \in 1..Len(children) : ReaperRmdir(c))
    /\ WF_vars(\E c \in 1..Len(children), ok \in BOOLEAN : TimerWrite(c, ok))
    /\ WF_vars((\E id \in Ids, ok \in BOOLEAN : SignalStep(id, ok)) \/ SignalExit)

\* requests, instances and the termination signal, fairly scheduled
SpecFair == Init /\ [][NextSignal]_vars /\ Fairness

\* the calls of escape_ddnet
SpecEscape == InitEscape /\ [][EscapeDdnet]_vars

\* with update_settings
NextSettings == UpdateMap \/ UpdateSettingsRequest \/ Lifecycle

SpecSettings == Init /\ [][NextSettings]_vars

----------------------------------------------------------------------------
(* Properties *)

\* C1: in every reachable state any two distinct registered identifiers
\* have different ports and every registered port lies in [low, high],
\* whatever the interleaving of requests, reaper removals and idle timers.
PortsDistinctInRange ==
    /\ \A i, j \in Registered : i # j => processes[i].port # processes[j].port
    /\ \A i \in Registered :
          port_range[1] <= processes[i].port /\ processes[i].port <= port_range[2]

\* two instances are registered at once
TwoRegistered == Cardinality(Registered) = 2

\* C2: a registry entry is removed (with `stopped` sent and the directory
\* deleted) only when the process its own creation spawned has exited,
\* never because an earlier process spawned for the same identifier exits.
RemovedOnlyByOwnExit ==
    [][\A id \in Registered :
          id \notin DOMAIN processes' => ~children[processes[id].tcp_stream].alive]_vars

\* C3: an instance receives the shut-down-when-empty command at most once,
\* and none at all if it leaves the registry before its own 60 seconds are
\* over, also when its identifier is created, removed and created again.
IdleCommandOncePerInstance ==
    \A c \in 1..Len(children) :
        /\ children[c].swe <= 1
        /\ (children[c].timer = "sleep" /\ children[c].id \notin Registered)
              => children[c].swe = 0

\* C4: the status event a subscriber gets first is `online` with the port
\* if its identifier is registered when the status is read under the lock
\* and `offline` otherwise, and every event that follows it in the stream
\* was sent after the status was read.
StatusThenLaterEventsOnly ==
    [][\A s \in Subs :
          /\ (subs[s].pc = "subscribed" /\ subs'[s].pc = "streaming")
                => /\ subs'[s].status = (IF subs[s].id \in Registered THEN "online" ELSE "offline")
                   /\ subs[s].id \in Registered => subs'[s].port = processes[subs[s].id].port
          /\ subs'[s].pc = "streaming" => subs'[s].early = 0]_vars

\* C5: a subscriber whose status event is `offline` gets nothing for its
\* identifier until a creation registers it: the first event after
\* `offline`, if any, is `online`.
OfflineThenOnlineFirst ==
    \A s \in Subs :
        (subs[s].pc = "streaming" /\ subs[s].status = "offline" /\ subs[s].stream # <<>>)
            => subs[s].stream[1].event = "online"

\* every port of the range is the port of a registered instance
AllPortsHeld ==
    \A p \in port_range[1]..port_range[2] : \E i \in Registered : processes[i].port = p

\* C6: a request for an unregistered identifier made while every port of
\* the range is held fails with the resource-exhaustion error; no process
\* is spawned, no event is sent and the registry stays as it was.
ExhaustionRejected ==
    [][/\ AllPortsHeld =>
            /\ Len(children') = Len(children)
            /\ DOMAIN processes' \subseteq Registered
            /\ (lock = Free /\ effects'.resp.status \notin {"none", "ErrFilename"}
                  /\ effects'.resp.id \notin Registered)
                 => effects'.resp.status = "ErrPorts"
       /\ effects'.resp.status = "ErrPorts" =>
            /\ AllPortsHeld
            /\ effects'.resp.id \notin Registered
            /\ effects'.event = NoEvent /\ effects'.sent = NoCmd
            /\ UNCHANGED <<processes, children, fs, subs, announced, lock>>]_vars

\* a request was refused for want of a port while an instance held the
\* only port of the range
ExhaustionSeen ==
    /\ effects.resp.status = "ErrPorts"
    /\ Registered # {}

\* C7: when the readiness handshake fails, or the administration
\* connection cannot be opened or written, the request returns an error,
\* the identifier is at no point in the registry and no `online` is sent.
FailedStartupNeverRegistered ==
    [][\A r \in Reqs :
          /\ req[r].pc = "handshake" => req[r].id \notin Registered
          /\ (req[r].pc = "handshake" /\ req'[r].pc = "idle"
                /\ effects'.resp.status # "Created")
               => /\ effects'.resp.status \in {"ErrStartup", "ErrIO"}
                  /\ effects'.resp.id = req[r].id
                  /\ effects'.event = NoEvent
                  /\ UNCHANGED <<processes, subs, announced>>]_vars

\* a creation has just failed in its handshake while its process runs on
StartupFailureSeen ==
    /\ effects.resp.status = "ErrStartup"
    /\ \E c \in 1..Len(children) :
          children[c].alive /\ children[c].id = effects.resp.id /\ children[c].timer = "none"

\* the step answers a request that took the Mutex in this very step
AnswersAtOnce == lock = Free /\ effects'.resp.status \notin {"none", "ErrFilename"}

\* an answer to a request for a registered identifier spawns nothing and
\* leaves the set of entries and the entry's port and connection as they were
UploadLeavesEntry ==
    (AnswersAtOnce /\ effects'.resp.id \in Registered)
        => /\ children' = children
           /\ DOMAIN processes' = Registered
           /\ processes'[effects'.resp.id].port = processes[effects'.resp.id].port
           /\ processes'[effects'.resp.id].tcp_stream = processes[effects'.resp.id].tcp_stream

\* Created is the answer of the step that inserts the entry of a request
\* whose identifier was absent, and of no other step
CreatedIffInserted ==
    /\ effects'.resp.status = "Created"
          => /\ effects'.resp.id \notin Registered
             /\ DOMAIN processes' = Registered \cup {effects'.resp.id}
    /\ ~(DOMAIN processes' \subseteq Registered) => effects'.resp.status = "Created"

\* an entry that stays in the registry keeps its port and its connection
NoOverwrite ==
    \A i \in Registered \cap DOMAIN processes' :
        /\ processes'[i].port = processes[i].port
        /\ processes'[i].tcp_stream = processes[i].tcp_stream

\* between the absence check and the insert nothing changes the registry
NoInterference ==
    /\ \A r \in Reqs : req[r].pc = "handshake" => req[r].id \notin Registered
    /\ \A r \in Reqs : (req[r].pc = "handshake" /\ req'[r].pc = "handshake")
                          => processes' = processes
    /\ \A r, q \in Reqs : (req[r].pc = "handshake" /\ req[q].pc = "handshake") => r = q

\* C8 as stated: Accepted is returned exactly when the identifier was in
\* the registry when the request took the lock; Created exactly when it
\* was absent and the request inserted it; no insert overwrites an entry
\* and nothing changes the registry between the check and the insert.
AcceptedIffPresent ==
    [][/\ AnswersAtOnce => (effects'.resp.status = "Accepted" <=> effects'.resp.id \in Registered)
       /\ effects'.resp.status = "Accepted" => lock = Free
       /\ UploadLeavesEntry
       /\ CreatedIffInserted
       /\ NoOverwrite
       /\ NoInterference]_vars

\* C8 as amended: Accepted is returned only when the identifier was in the
\* registry when the request took the lock, and a request that finds it
\* there returns Accepted or, when a write of the upload fails, an error;
\* the rest as stated.
AcceptedOnlyIfPresent ==
    [][/\ AnswersAtOnce =>
            /\ effects'.resp.status = "Accepted" => effects'.resp.id \in Registered
            /\ effects'.resp.id \in Registered => effects'.resp.status \in {"Accepted", "ErrIO"}
       /\ effects'.resp.status = "Accepted" => lock = Free
       /\ UploadLeavesEntry
       /\ CreatedIffInserted
       /\ NoOverwrite
       /\ NoInterference]_vars

\* an upload to a registered identifier was answered Accepted while both
\* identifiers were registered
AcceptedSeen ==
    /\ effects.resp.status = "Accepted"
    /\ Cardinality(Registered) = 2

\* what C9 says of the step that answers an upload of `stem` to the
\* registered instance `id`
UploadEffect(id, stem) ==
    LET old == processes[id].map_path
        c == processes[id].tcp_stream
    IN  IF old = stem
        THEN /\ effects'.sent = Cmd(c, "hot_reload", "")
             /\ processes' = processes
             /\ fs[id].maps \subseteq fs'[id].maps
        ELSE /\ effects'.sent = Cmd(c, "change_map", stem)
             /\ old \notin fs'[id].maps
             /\ stem \in fs'[id].maps
             /\ processes' = [processes EXCEPT ![id].map_path = stem]

ShutdownCompletes ==
    /\ sig.pc # "failed"
    /\ sig.pc = "exited" => sig.done = sig.snap

\* C11: update_settings answers Accepted when the identifier is registered
\* and the name line followed by the password line was written to its
\* connection, and Ok with nothing sent when it is not registered; either
\* way the registry stays as it was and no event is sent.
SettingsContract ==
    [][effects'.resp.stem = "" =>
          LET id == effects'.resp.id
              written == effects'.sent.cmd = "sv_name,password"
          IN  /\ id \notin Registered
                    => effects'.resp.status = "Ok" /\ effects'.sent.cmd = "none"
              /\ id \in Registered
                    => /\ effects'.resp.status \in {"Accepted", "ErrIO"}
                       /\ effects'.resp.status = "Accepted" <=> written
                       /\ written =>
                            /\ effects'.sent.child = processes[id].tcp_stream
                            /\ effects'.sent.arg[1] \in { escape_ddnet(n) : n \in Names }
                            /\ effects'.sent.arg[2] \in { escape_ddnet(p) : p \in Passwords }
                       /\ ~written => effects'.sent.cmd = "none"
              /\ effects'.event = NoEvent
              /\ UNCHANGED <<processes, subs, announced, children, fs, lock>>]_vars

\* the settings of a registered instance have just been updated
SettingsAccepted ==
    /\ effects.resp.stem = ""
    /\ effects.resp.status = "Accepted"
    /\ effects.sent.cmd = "sv_name,password"
    /\ effects.resp.id \in Registered

\* the backslashes that stand directly before position i of str
RECURSIVE BackslashRun(_, _)
BackslashRun(str, i) ==
    IF i > 1 /\ str[i - 1] = "\\" THEN 1 + BackslashRun(str, i - 1) ELSE 0

\* the reading of the target line format: a backslash before a backslash
\* or a double quote stands for that character
RECURSIVE Unescape(_)
Unescape(str) ==
    IF str = <<>> THEN <<>>
    ELSE IF Len(str) >= 2 /\ str[1] = "\\" /\ str[2] \in {"\\", "\""}
    THEN <<str[2]>> \o Unescape(SubSeq(str, 3, Len(str)))
    ELSE <<str[1]>> \o Unescape(Tail(str))

IsLineBreak(ch) == ch \in {"\r", "\n"}
NoLineBreak(ch) == ~IsLineBreak(ch)

\* C12: the result of escape_ddnet has no CR and no LF, every double quote
\* in it stands after an odd number of backslashes, and unescaping it gives
\* the argument without its CR and LF characters.
EscapeContract ==
    escaped.pc = "done" =>
        /\ \A i \in 1..Len(escaped.out) :
              /\ ~IsLineBreak(escaped.out[i])
              /\ escaped.out[i] = "\"" => BackslashRun(escaped.out, i) % 2 = 1
        /\ Unescape(escaped.out) = SelectSeq(escaped.str, NoLineBreak)

\* a string with a backslash, a line feed and a double quote was escaped
EscapedAll ==
    /\ escaped.pc = "done"
    /\ escaped.str = <<"\\", "\n", "\"">>
    /\ escaped.out = <<"\\", "\\", "\\", "\"">>

\* C13: every insert into the registry comes with an `online` event for
\* the identifier and every removal with a `stopped` event, in the same
\* hold of the lock; whenever the lock is free an identifier is registered
\* exactly if its latest `online`/`stopped` event is `online`; the two
\* kinds of event alternate per identifier, `online` first.
InsertRemovePaired ==
    [][LET ev == effects'.event
           inserted == DOMAIN processes' \ Registered
           removed == Registered \ DOMAIN processes'
       IN  /\ \A id \in inserted :
                 ev.server_id = id /\ ev.event = "online" /\ lock # Free
           /\ \A id \in removed :
                 ev.server_id = id /\ ev.event = "stopped" /\ lock' # Free
           /\ ev.event = "online"
                 => inserted = {ev.server_id} /\ ev.server_id \notin announced
           /\ ev.event = "stopped"
                 => removed = {ev.server_id} /\ ev.server_id \in announced
           /\ lock' = Free => announced' = DOMAIN processes']_vars

\* `stopped` has just been sent for one instance while another is online
StoppedPublished ==
    /\ effects.event.event = "stopped"
    /\ effects.event.server_id \notin Registered
    /\ announced # {}

\* C14: the reaper does not hold the lock while it deletes the instance
\* directory, and the idle timer does not hold it while it writes the
\* shut-down-when-empty command to the connection.
LockOnlyForCheckAndMutate ==
    \A c \in 1..Len(children) :
        /\ children[c].reaper = "rmdir" => lock # ReaperTask(c)
        /\ children[c].timer = "write" => lock # TimerTask(c)

\* p is the smallest port of the range that no instance of procs has
SmallestUnregistered(p, procs) ==
    LET held == { procs[i].port : i \in DOMAIN procs }
    IN  /\ port_range[1] <= p /\ p <= port_range[2]
        /\ p \notin held
        /\ \A q \in port_range[1]..(p - 1) : q \in held

\* C15: the port of a new instance is the smallest port of [low, high]
\* that is not the port of an instance registered at that moment, both when
\* its process is spawned and when the creation succeeds; with low > high
\* every creation fails for want of a port.
LowestFreePortChosen ==
    [][/\ Len(children') > Len(children)
            => SmallestUnregistered(children'[Len(children')].port, processes)
       /\ effects'.resp.status = "Created"
            => SmallestUnregistered(processes'[effects'.resp.id].port, processes)
       /\ port_range[1] > port_range[2]
            => /\ children' = children
               /\ effects'.resp.status \in {"none", "ErrFilename", "ErrPorts"}]_vars

\* an instance was created on the second port while the first was held
SecondPortGiven ==
    /\ effects.resp.status = "Created"
    /\ processes[effects.resp.id].port = 2
    /\ \E i \in Registered : processes[i].port = 1

\* C16: an upload to a registered instance one of whose writes or whose
\* file removal fails is answered with an error and leaves the registry
\* exactly as it was: the same identifiers, the same port and the same
\* tracked map path.
FailedUploadKeepsRegistry ==
    [][(AnswersAtOnce /\ effects'.resp.id \in Registered /\ effects'.resp.status # "Accepted")
          => /\ effects'.resp.status = "ErrIO"
             /\ processes' = processes]_vars

\* an upload has just failed in its remove_file, after change_map was sent
RemoveFailedSeen ==
    /\ effects.resp.status = "ErrIO"
    /\ effects.sent.cmd = "change_map"
    /\ effects.resp.id \in Registered

\* the process of the registered instance id has terminated
ProcessExited(id) ==
    id \in Registered /\ ~children[processes[id].tcp_stream].alive

\* the instance id is gone: no entry, `stopped` sent, no directory
Reaped(id) ==
    id \notin Registered /\ id \notin announced /\ ~fs[id].dir

\* C17: under fair scheduling, once the process of a registered instance
\* has terminated, its identifier eventually leaves the registry with a
\* `stopped` event sent and its directory deleted, and the lock is never
\* held forever (as long as the orchestrator itself runs).
ReaperCompletes ==
    /\ \A id \in Ids : ProcessExited(id) ~> (Reaped(id) \/ ~Running)
    /\ (lock # Free) ~> (lock = Free \/ ~Running)

\* the process of a registered instance has terminated while another task
\* holds the lock
ExitedWhileLockHeld ==
    /\ lock # Free
    /\ \E id \in Ids : ProcessExited(id) /\ lock # ReaperTask(processes[id].tcp_stream)

\* C18: a port is given to a new process only if no process that was
\* spawned with that port before is still running, also when that process
\* was left behind by a creation that failed after the spawn.
PortFreeOfRunningProcesses ==
    [][Len(children') > Len(children)
          => \A c \in 1..Len(children) :
                children[c].alive => children[c].port # children'[Len(children')].port]_vars

\* the latest of `online`, `offline` and `stopped` in what the subscriber
\* is sent: the status event first, then the events of its stream
LatestPresence(sub) ==
    LET at == { i \in 1..Len(sub.stream) : sub.stream[i].event \in {"online", "stopped"} }
    IN  IF at = {} THEN sub.status
        ELSE sub.stream[CHOOSE i \in at : \A j \in at : j <= i].event

\* the subscriber has its status event and is still connected
Following(sub) == sub.pc = "streaming" /\ Len(sub.stream) < MaxStream

\* C19: for a subscriber that keeps up with the channel, whenever the lock
\* is free the latest presence event it has been sent is `online` exactly
\* if its identifier is registered, and every `online` or `stopped` sent
\* for its identifier after its status was read reaches its stream.
SubscriberTracksPresence ==
    [][\A s \in Subs :
          /\ (Following(subs'[s]) /\ lock' = Free)
                => (LatestPresence(subs'[s]) = "online" <=> subs'[s].id \in DOMAIN processes')
          /\ (Following(subs[s]) /\ effects'.event.event \in {"online", "stopped"}
                /\ effects'.event.server_id = subs[s].id)
                => subs'[s].stream = Append(subs[s].stream, effects'.event)]_vars

\* a subscriber whose status was `online` has been sent the `stopped` that
\* followed
StoppedFollowsOnline ==
    \E s \in Subs :
        /\ subs[s].pc = "streaming" /\ subs[s].status = "online" /\ subs[s].early = 0
        /\ subs[s].stream # <<>>
        /\ subs[s].stream[Len(subs[s].stream)].event = "stopped"
        /\ subs[s].id \notin Registered
        /\ lock = Free

\* C20: whenever the lock is free, the tracked map path of every
\* registered instance names the map its server was last told to load (the
\* sv_map of its startup script, or the latest change_map sent to it), and
\* that file is in the instance directory; after successful and failed
\* uploads alike. Step by step: a creation tracks the map it started the
\* server with, a change_map sent is tracked, nothing else changes the
\* tracked path.
TrackedMapIsLoadedMap ==
    [][/\ effects'.resp.status = "Created"
            => processes'[effects'.resp.id].map_path = effects'.resp.stem
       /\ effects'.sent.cmd = "change_map"
            => processes'[effects'.resp.id].map_path = effects'.sent.arg
       /\ \A id \in Registered \cap DOMAIN processes' :
              processes'[id].map_path # processes[id].map_path
                 => effects'.sent = Cmd(processes[id].tcp_stream, "change_map",
                                        processes'[id].map_path)
       /\ lock' = Free
            => \A id \in DOMAIN processes' : processes'[id].map_path \in fs'[id].maps]_vars

====
